---- MODULE Spec2Model ----
(***************************************************************************)
(* A model of the financial calculators of dbogatic/financial_calculators. *)
(*                                                                         *)
(*   essp_payout_calc.py          bucket growth: run_calculation,          *)
(*                                create_payout_df, the validation of main *)
(*   contribution_accumulation.py retirement forecast with the Rule of 55  *)
(*   ss_breakeven.py              build_monthly_series, align_series,      *)
(*                                find_breakeven_month                     *)
(*   share_plan_accumulation.py   the accumulation of the yearly net value *)
(*   lumpsum_vs_payments_and_invest.py  the yearly balance, its present    *)
(*                                value and the conclusion shown           *)
(*                                                                         *)
(* Python floats are modelled as exact rationals <<n, d>> in lowest terms  *)
(* (d > 0); <<0, 0>> stands for NaN / None.  The rates drawn as inputs are *)
(* dyadic (0, 1/8, 1/2), for which double arithmetic is exact at the sizes *)
(* reached here; the contribution rates fixed in the forecast (0.05 .. 0.10 *)
(* and 0.04) and the rates of the two bucket scenarios (3%, 7%, 5%) stand   *)
(* for their decimal values.                                               *)
(***************************************************************************)
EXTENDS Integers, Sequences, FiniteSets, TLC

(***************************************************************************)
(* Bounds of the model.                                                    *)
(***************************************************************************)
\* the payout years drawn for a bucket reach current_year + MaxHorizon
MaxHorizon == 3
\* the target ages drawn reach the age at the start of the current year plus
\* MaxForecastYears
MaxForecastYears == 4
\* a series holds entries for months 0 .. MaxMonths - 1, with cumulative
\* values in 0 .. MaxValue
MaxMonths == 3
MaxValue == 2

(***************************************************************************)
(* float arithmetic                                                        *)
(***************************************************************************)
Abs(x) == IF x < 0 THEN -x ELSE x

RECURSIVE GCD(_, _)
GCD(x, y) == IF y = 0 THEN x ELSE GCD(y, x % y)

Norm(n, d) == LET g == GCD(Abs(n), Abs(d)) IN
              IF d = 0 THEN <<0, 0>> ELSE <<n \div g, d \div g>>

NaN == <<0, 0>>
IsNaN(x) == x[2] = 0
Zero == <<0, 1>>
One == <<1, 1>>
Num(k) == <<k, 1>>

RAdd(x, y) == Norm(x[1] * y[2] + y[1] * x[2], x[2] * y[2])
RMul(x, y) == Norm(x[1] * y[1], x[2] * y[2])
RLt(x, y) == x[1] * y[2] < y[1] * x[2]
RLe(x, y) == x[1] * y[2] <= y[1] * x[2]

\* round(x, 2): the nearest multiple of 0.01, a tie going to the even cent
Round2(x) ==
    LET c == x[1] * 100
        q == c \div x[2]
        r == c - q * x[2]
        cents == IF 2 * r < x[2] THEN q
                 ELSE IF 2 * r > x[2] THEN q + 1
                 ELSE IF q % 2 = 0 THEN q ELSE q + 1
    IN Norm(cents, 100)

(***************************************************************************)
(* State                                                                   *)
(***************************************************************************)
VARIABLES
    pc,               \* the position of the running script
    st_error,         \* the message shown by st.error, "" when none
    \* ---- essp_payout_calc.py
    cola, pre_return, post_return, retirement_age, current_age, current_year,
    current_salary, contrib_type,
    bucket_df,        \* the edited table: a sequence of rows of cells
    buckets,          \* bucket_df.to_dict(orient="records")
    max_payout_year,
    yr,               \* the year of the row being built
    bidx,             \* the index in buckets of the bucket being simulated
    balance, sim_year, age, contrib, local_salary,
    row,              \* the row being built: Year, Age and one entry per bucket
    results,          \* the rows built so far
    payouts,          \* the records of create_payout_df
    steps             \* the periods simulated for the current bucket since its
                      \* balance was reset: [year, age, active, added]

VARIABLES
    \* ---- contribution_accumulation.py
    now,                     \* datetime.now(), as a date
    dob,
    hire_date_input,         \* <<>> when left blank, else <<date>>
    years_of_service_input,  \* <<>> when left blank, else <<number>>
    eligible_pay, rate_of_return, pay_growth_rate, target_age,
    years_of_service,        \* the argument of forecast_contributions
    total_contributions, reference_age, years_until_target, salary,
    age_on_2025, yos_now,
    year,                    \* the year of the loop of forecast_contributions
    service_credit_rate,
    data                     \* the rows appended so far

fcVars == <<now, dob, hire_date_input, years_of_service_input, eligible_pay,
            rate_of_return, pay_growth_rate, target_age, years_of_service,
            total_contributions, reference_age, years_until_target, salary,
            age_on_2025, yos_now, year, service_credit_rate, data>>

VARIABLES
    \* ---- ss_breakeven.py
    sa, sb,           \* the two series: sequences of <<month, cumulative value>>
    months,           \* align_series: the sorted union of the months
    out_a, out_b,     \* align_series: the aligned series built so far
    pa, pb,           \* align_series: the latest value seen of each series
    month_idx,        \* align_series: the position in months
    scan_i,           \* find_breakeven_month: the loop index i
    breakeven         \* the returned value: <<>> for None, else <<month>>

VARIABLES
    \* ---- ss_breakeven.py, build_monthly_series
    birth_date,              \* dob
    current_date, claim_age, monthly_at_claim_today, horizon_age, cola_rate,
    apply_cola_from_today,
    cola_timing,             \* "january" | "birthday"
    use_payment_lag,
    start_m, start_amt, end_ex,
    month_list,              \* months
    month_d,                 \* d of the while loop
    series, cum, amt,
    series_idx               \* the position in months of the for loop

bmsVars == <<birth_date, current_date, claim_age, monthly_at_claim_today, horizon_age,
             cola_rate, apply_cola_from_today, cola_timing, use_payment_lag,
             start_m, start_amt, end_ex, month_list, month_d, series, cum, amt,
             series_idx>>

ssVars == <<sa, sb, months, out_a, out_b, pa, pb, month_idx, scan_i, breakeven,
            bmsVars>>

VARIABLES
    \* ---- share_plan_accumulation.py
    start_year, end_year, shares_per_year, share_price,
    tax_rate, growth_rate,
    share_years,             \* years
    net_values,              \* df["Net Value"]
    net_idx,                 \* the position in df["Net Value"] of the for loop
    accumulated, accumulated_values

spVars == <<start_year, end_year, shares_per_year, share_price, tax_rate,
            growth_rate, share_years, net_values, net_idx, accumulated,
            accumulated_values>>

VARIABLES
    \* ---- lumpsum_vs_payments_and_invest.py
    lump_sum_amount,
    ls_starting_balance,     \* starting_balance
    annual_payment, return_rate,
    ls_tax_rate,             \* tax_rate
    discount_rate,
    ls_years,                \* years
    ls_balance,              \* balance
    ls_year,                 \* year of the for loop
    ls_results,              \* results
    final_balance, present_value,
    conclusion               \* "" | "success" | "warning": the message shown

lsVars == <<lump_sum_amount, ls_starting_balance, annual_payment, return_rate,
            ls_tax_rate, discount_rate, ls_years, ls_balance, ls_year,
            ls_results, final_balance, present_value, conclusion>>

esspVars == <<cola, pre_return, post_return, retirement_age, current_age,
              current_year, current_salary, contrib_type, bucket_df, buckets,
              max_payout_year, yr, bidx, balance, sim_year, age, contrib,
              local_salary, row, results, payouts, steps>>

vars == <<pc, st_error, esspVars, fcVars, ssVars, spVars, lsVars>>

(***************************************************************************)
(* The scripts are separate programs: while one runs, the variables of the *)
(* others keep the values below.                                           *)
(***************************************************************************)
NoDate == [y |-> 0, m |-> 0, d |-> 0]

NoRow == [Year |-> 0, Age |-> 0, cols |-> <<>>]

EsspNotRunning ==
    /\ cola = Zero /\ pre_return = Zero /\ post_return = Zero
    /\ retirement_age = 0 /\ current_age = 0 /\ current_year = 0
    /\ current_salary = Zero /\ contrib_type = "Amount"
    /\ bucket_df = <<>> /\ buckets = <<>> /\ max_payout_year = 0
    /\ yr = 0 /\ bidx = 0 /\ balance = NaN /\ sim_year = 0 /\ age = 0
    /\ contrib = NaN /\ local_salary = NaN /\ row = NoRow
    /\ results = <<>> /\ payouts = <<>> /\ steps = <<>>

ForecastNotRunning ==
    /\ now = NoDate /\ dob = NoDate
    /\ hire_date_input = <<>> /\ years_of_service_input = <<>>
    /\ eligible_pay = Zero /\ rate_of_return = Zero /\ pay_growth_rate = Zero
    /\ target_age = 0 /\ years_of_service = 0
    /\ total_contributions = Zero /\ reference_age = 0
    /\ years_until_target = 0 /\ salary = Zero /\ age_on_2025 = 0
    /\ yos_now = 0 /\ year = 0 /\ service_credit_rate = Zero /\ data = <<>>

SharePlanNotRunning ==
    /\ start_year = 0 /\ end_year = 0
    /\ shares_per_year = Zero /\ share_price = Zero
    /\ tax_rate = Zero /\ growth_rate = Zero
    /\ share_years = <<>> /\ net_values = <<>> /\ net_idx = 0
    /\ accumulated = Zero /\ accumulated_values = <<>>

LumpSumNotRunning ==
    /\ lump_sum_amount = Zero /\ ls_starting_balance = Zero
    /\ annual_payment = Zero /\ return_rate = Zero /\ ls_tax_rate = Zero
    /\ discount_rate = Zero /\ ls_years = 0 /\ ls_balance = Zero
    /\ ls_year = 0 /\ ls_results = <<>>
    /\ final_balance = Zero /\ present_value = Zero /\ conclusion = ""

SeriesNotRunning ==
    /\ birth_date = NoDate /\ current_date = NoDate
    /\ claim_age = 0 /\ monthly_at_claim_today = Zero /\ horizon_age = 0
    /\ cola_rate = Zero /\ apply_cola_from_today = FALSE
    /\ cola_timing = "january" /\ use_payment_lag = FALSE
    /\ start_m = NoDate /\ start_amt = Zero /\ end_ex = NoDate
    /\ month_list = <<>> /\ month_d = NoDate
    /\ series = <<>> /\ cum = Zero /\ amt = Zero /\ series_idx = 0

FinderNotRunning ==
    /\ sa = <<>> /\ sb = <<>> /\ months = <<>>
    /\ out_a = <<>> /\ out_b = <<>> /\ pa = 0 /\ pb = 0
    /\ month_idx = 0 /\ scan_i = 0 /\ breakeven = <<>>

BreakevenNotRunning == FinderNotRunning /\ SeriesNotRunning

(***************************************************************************)
(* essp_payout_calc.py: the inputs of the form                             *)
(***************************************************************************)
DefaultCurrentYear == 2025
DefaultCurrentAge == 58

\* a cell of the data editor: a number, or text / a blank
NumCell(x) == [kind |-> "num", val |-> x]
TextCell == [kind |-> "text", val |-> NaN]

Rates == {Zero, <<1, 8>>}
Colas == {<<1, 8>>}
RetirementAges == {58, 60}
Salaries == {Num(8)}
ContribTypes == {"Amount", "Percent"}
BucketNames == <<"Bucket 1", "Bucket 2">>
NumBuckets == Len(BucketNames)

StartingBalances == {Zero, One}
StartingContributions == {Zero, One}
PayoutYears == DefaultCurrentYear .. DefaultCurrentYear + MaxHorizon

\* the rows the validation of main accepts
GoodRows(name) ==
    [name : {name},
     starting_balance : {NumCell(x) : x \in StartingBalances},
     starting_contribution : {NumCell(x) : x \in StartingContributions},
     payout_year : {NumCell(Num(y)) : y \in PayoutYears}]

\* an edit that makes one cell of the table text, negative, or a year <= 0
BadEdits ==
    {<<"starting_balance", TextCell>>, <<"starting_balance", NumCell(Num(-1))>>,
     <<"starting_contribution", TextCell>>,
     <<"starting_contribution", NumCell(Num(-1))>>,
     <<"payout_year", TextCell>>, <<"payout_year", NumCell(Zero)>>}

EditCell(df, i, e) == [df EXCEPT ![i] = [@ EXCEPT ![e[1]] = e[2]]]

GoodTables ==
    {t \in [1 .. NumBuckets -> UNION {GoodRows(BucketNames[i]) : i \in 1 .. NumBuckets}] :
        \A i \in 1 .. NumBuckets : t[i].name = BucketNames[i]}

\* the tables the validation of main rejects: one cell of an accepted table
\* edited
BadTables ==
    {EditCell(t, i, e) : t \in GoodTables, i \in 1 .. NumBuckets, e \in BadEdits}

\* a bucket with nothing in it, paid out after one year
EmptyBucket(name) ==
    [name |-> name, starting_balance |-> NumCell(Zero),
     starting_contribution |-> NumCell(Zero),
     payout_year |-> NumCell(Num(DefaultCurrentYear + 1))]

\* the first scenario of the specification: balance 30000, contribution 5000
\* a year, COLA 3%, return 7% for two active years, then one year at 5%
AmountScenarioTable ==
    <<[name |-> BucketNames[1], starting_balance |-> NumCell(Num(30000)),
       starting_contribution |-> NumCell(Num(5000)),
       payout_year |-> NumCell(Num(DefaultCurrentYear + 3))],
      EmptyBucket(BucketNames[2])>>

\* the second scenario: salary 100000, contribution rate 5%, COLA 3%,
\* return 7%, starting balance 0, two active years
PercentScenarioTable ==
    <<[name |-> BucketNames[1], starting_balance |-> NumCell(Zero),
       starting_contribution |-> NumCell(<<1, 20>>),
       payout_year |-> NumCell(Num(DefaultCurrentYear + 2))],
      EmptyBucket(BucketNames[2])>>

\* The global inputs range over their sets with every accepted table; the
\* rejected tables, for which no global input is read, come with one choice
\* of them, and the two scenarios with their own.
InitEssp ==
    /\ pc = "main"
    /\ st_error = ""
    /\ current_age = DefaultCurrentAge
    /\ current_year = DefaultCurrentYear
    /\ \/ /\ bucket_df \in GoodTables
          /\ current_salary \in Salaries
          /\ contrib_type \in ContribTypes
          /\ cola \in Colas
          /\ pre_return \in Rates
          /\ post_return \in Rates
          /\ retirement_age \in RetirementAges
       \/ /\ bucket_df \in BadTables
          /\ current_salary \in Salaries
          /\ contrib_type \in ContribTypes
          /\ cola = <<1, 8>>
          /\ pre_return = <<1, 8>>
          /\ post_return = <<1, 8>>
          /\ retirement_age = 60
       \/ /\ bucket_df = AmountScenarioTable
          /\ current_salary \in Salaries
          /\ contrib_type = "Amount"
          /\ cola = <<3, 100>>
          /\ pre_return = <<7, 100>>
          /\ post_return = <<1, 20>>
          /\ retirement_age = DefaultCurrentAge + 2
       \/ /\ bucket_df = PercentScenarioTable
          /\ current_salary = Num(100000)
          /\ contrib_type = "Percent"
          /\ cola = <<3, 100>>
          /\ pre_return = <<7, 100>>
          /\ post_return = <<1, 20>>
          /\ retirement_age = DefaultCurrentAge + 2
    /\ buckets = <<>>
    /\ max_payout_year = 0
    /\ yr = 0
    /\ bidx = 0
    /\ balance = NaN
    /\ sim_year = 0
    /\ age = 0
    /\ contrib = NaN
    /\ local_salary = NaN
    /\ row = NoRow
    /\ results = <<>>
    /\ payouts = <<>>
    /\ steps = <<>>
    /\ ForecastNotRunning
    /\ BreakevenNotRunning
    /\ SharePlanNotRunning
    /\ LumpSumNotRunning

(***************************************************************************)
(* essp_payout_calc.py: main, the "Run Calculation" button                 *)
(***************************************************************************)
\* pd.to_numeric(errors="coerce"): a number stays, anything else becomes NaN
ToNumeric(cell) == IF cell.kind = "num" THEN cell.val ELSE NaN

Coerced(df) ==
    [i \in DOMAIN df |->
        [name |-> df[i].name,
         starting_balance |-> ToNumeric(df[i].starting_balance),
         starting_contribution |-> ToNumeric(df[i].starting_contribution),
         payout_year |-> ToNumeric(df[i].payout_year)]]

\* a row of invalid_df: some numeric column is NaN
HasNaN(r) ==
    IsNaN(r.starting_balance) \/ IsNaN(r.starting_contribution) \/ IsNaN(r.payout_year)

\* mutant of HasInvalidValue: a payout year of 0 is let through
HasInvalidValue_lt(r) ==
    \/ RLt(r.starting_balance, Zero)
    \/ RLt(r.starting_contribution, Zero)
    \/ RLt(r.payout_year, Zero)

\* a row of invalid_values
HasInvalidValue(r) ==
    \/ RLt(r.starting_balance, Zero)
    \/ RLt(r.starting_contribution, Zero)
    \/ RLe(r.payout_year, Zero)

ButtonRunCalculation ==
    /\ pc = "main"
    /\ LET df == Coerced(bucket_df) IN
       /\ bucket_df' = df
       /\ IF \E i \in DOMAIN df : HasNaN(df[i])
          THEN /\ st_error' = "Some rows have invalid numeric values"
               /\ pc' = "stopped"
          ELSE IF \E i \in DOMAIN df : HasInvalidValue(df[i])
          THEN /\ st_error' = "One or more rows have invalid values"
               /\ pc' = "stopped"
          ELSE /\ st_error' = st_error
               /\ pc' = "run_calculation"
    /\ UNCHANGED <<cola, pre_return, post_return, retirement_age, current_age,
                   current_year, current_salary, contrib_type, buckets,
                   max_payout_year, yr, bidx, balance, sim_year, age, contrib,
                   local_salary, row, results, payouts, steps>>
    /\ UNCHANGED <<fcVars, ssVars, spVars, lsVars>>

(***************************************************************************)
(* essp_payout_calc.py: run_calculation                                    *)
(***************************************************************************)
PayoutYear(b) == b.payout_year[1]

RECURSIVE MaxOver(_, _)
MaxOver(bs, i) ==
    IF i = Len(bs) THEN PayoutYear(bs[i])
    ELSE LET m == MaxOver(bs, i + 1) IN
         IF PayoutYear(bs[i]) > m THEN PayoutYear(bs[i]) ELSE m

RunCalculationBegin ==
    /\ pc = "run_calculation"
    /\ buckets' = bucket_df
    /\ max_payout_year' = MaxOver(bucket_df, 1)
    /\ yr' = current_year
    /\ pc' = "for_yr"
    /\ UNCHANGED <<st_error, cola, pre_return, post_return, retirement_age,
                   current_age, current_year, current_salary, contrib_type,
                   bucket_df, bidx, balance, sim_year, age, contrib,
                   local_salary, row, results, payouts, steps>>
    /\ UNCHANGED <<fcVars, ssVars, spVars, lsVars>>

\* for yr in years: the next year of range(current_year, max_payout_year)
ForYr ==
    /\ pc = "for_yr"
    /\ yr < max_payout_year
    /\ row' = [Year |-> yr, Age |-> current_age + (yr - current_year), cols |-> <<>>]
    /\ bidx' = 1
    /\ pc' = "for_b"
    /\ UNCHANGED <<st_error, cola, pre_return, post_return, retirement_age,
                   current_age, current_year, current_salary, contrib_type,
                   bucket_df, buckets, max_payout_year, yr, balance, sim_year,
                   age, contrib, local_salary, results, payouts, steps>>
    /\ UNCHANGED <<fcVars, ssVars, spVars, lsVars>>

\* mutant of ResetBucket: the salary is set once, before the loop over the
\* buckets, and carried from one bucket's simulation into the next
ResetBucket_shared(b) ==
    /\ balance' = b.starting_balance
    /\ sim_year' = current_year
    /\ age' = current_age
    /\ IF contrib_type = "Amount"
       THEN contrib' = b.starting_contribution /\ local_salary' = local_salary
       ELSE /\ local_salary' = IF bidx = 1 THEN current_salary
                               ELSE local_salary
            /\ contrib' = contrib
    /\ steps' = <<>>

\* the start of one bucket's simulation: the balance, year, age and
\* contribution (or salary) are set afresh from the inputs
ResetBucket(b) ==
    /\ balance' = b.starting_balance
    /\ sim_year' = current_year
    /\ age' = current_age
    /\ IF contrib_type = "Amount"
       THEN contrib' = b.starting_contribution /\ local_salary' = local_salary
       ELSE local_salary' = current_salary /\ contrib' = contrib
    /\ steps' = <<>>

ForB ==
    /\ pc = "for_b"
    /\ bidx <= Len(buckets)
    /\ ResetBucket(buckets[bidx])
    /\ pc' = "while"
    /\ UNCHANGED <<st_error, cola, pre_return, post_return, retirement_age,
                   current_age, current_year, current_salary, contrib_type,
                   bucket_df, buckets, max_payout_year, yr, bidx, row, results,
                   payouts>>
    /\ UNCHANGED <<fcVars, ssVars, spVars, lsVars>>

\* mutant of ActivePhase: the phase is decided from the starting age
ActivePhase_stale == current_age < retirement_age

\* if age < retirement_age
ActivePhase == age < retirement_age

\* mutant of ContributionThisYear: the COLA is applied before the
\* contribution is added
ContributionThisYear_grown(b) ==
    IF contrib_type = "Amount" THEN RMul(contrib, RAdd(One, cola))
    ELSE RMul(RMul(local_salary, RAdd(One, cola)), b.starting_contribution)

\* mutant of ContributionThisYear: in Percent mode the fraction is taken of
\* the bucket's balance
ContributionThisYear_ofbalance(b) ==
    IF contrib_type = "Amount" THEN contrib
    ELSE RMul(balance, b.starting_contribution)

\* what an active year adds to the balance before growth
ContributionThisYear(b) ==
    IF contrib_type = "Amount" THEN contrib
    ELSE RMul(local_salary, b.starting_contribution)

\* mutant of GrownBalance: the balance is rounded at every step
GrownBalance_rounded(b) ==
    Round2(IF ActivePhase
           THEN RMul(RAdd(balance, ContributionThisYear(b)), RAdd(One, pre_return))
           ELSE RMul(balance, RAdd(One, post_return)))

\* mutant of GrownBalance: the contribution is added in runoff years too
GrownBalance_runoffadds(b) ==
    IF ActivePhase
    THEN RMul(RAdd(balance, ContributionThisYear(b)), RAdd(One, pre_return))
    ELSE RMul(RAdd(balance, ContributionThisYear(b)), RAdd(One, post_return))

\* mutant of GrownBalance: an active year grows the balance first and adds
\* the contribution afterwards
GrownBalance_growfirst(b) ==
    IF ActivePhase
    THEN RAdd(RMul(balance, RAdd(One, pre_return)), ContributionThisYear(b))
    ELSE RMul(balance, RAdd(One, post_return))

\* the balance after one simulated year
GrownBalance(b) ==
    IF ActivePhase
    THEN RMul(RAdd(balance, ContributionThisYear(b)), RAdd(One, pre_return))
    ELSE RMul(balance, RAdd(One, post_return))

\* one iteration of the while loop's body
SimulateYear(b) ==
    /\ balance' = GrownBalance(b)
    /\ IF ActivePhase /\ contrib_type = "Amount"
       THEN contrib' = RMul(contrib, RAdd(One, cola))
       ELSE contrib' = contrib
    /\ IF ActivePhase /\ contrib_type # "Amount"
       THEN local_salary' = RMul(local_salary, RAdd(One, cola))
       ELSE local_salary' = local_salary
    /\ sim_year' = sim_year + 1
    /\ age' = age + 1
    /\ steps' = Append(steps, [year |-> sim_year, age |-> age,
                               active |-> ActivePhase,
                               added |-> IF ActivePhase
                                         THEN ContributionThisYear(b) ELSE Zero,
                               before |-> balance, after |-> GrownBalance(b)])

\* while sim_year <= yr and sim_year < b["payout_year"]
WhileCond(b) == sim_year <= yr /\ sim_year < PayoutYear(b)

WhileStep ==
    /\ pc = "while"
    /\ WhileCond(buckets[bidx])
    /\ SimulateYear(buckets[bidx])
    /\ UNCHANGED <<pc, st_error, cola, pre_return, post_return, retirement_age,
                   current_age, current_year, current_salary, contrib_type,
                   bucket_df, buckets, max_payout_year, yr, bidx, row, results,
                   payouts>>
    /\ UNCHANGED <<fcVars, ssVars, spVars, lsVars>>

\* mutant of Entry: the payout year itself still gets a value
Entry_le(b) == IF yr <= PayoutYear(b) THEN Round2(balance) ELSE NaN

\* row[b["name"]] = round(balance, 2) if yr < b["payout_year"] else None
Entry(b) == IF yr < PayoutYear(b) THEN Round2(balance) ELSE NaN

SetKey(d, k, v) == [x \in DOMAIN d \cup {k} |-> IF x = k THEN v ELSE d[x]]

RecordEntry ==
    /\ pc = "while"
    /\ ~WhileCond(buckets[bidx])
    /\ row' = [row EXCEPT !.cols = SetKey(@, buckets[bidx].name, Entry(buckets[bidx]))]
    /\ bidx' = bidx + 1
    /\ pc' = "for_b"
    /\ UNCHANGED <<st_error, cola, pre_return, post_return, retirement_age,
                   current_age, current_year, current_salary, contrib_type,
                   bucket_df, buckets, max_payout_year, yr, balance, sim_year,
                   age, contrib, local_salary, results, payouts, steps>>
    /\ UNCHANGED <<fcVars, ssVars, spVars, lsVars>>

\* results.append(row)
AppendRow ==
    /\ pc = "for_b"
    /\ bidx > Len(buckets)
    /\ results' = Append(results, row)
    /\ yr' = yr + 1
    /\ pc' = "for_yr"
    /\ UNCHANGED <<st_error, cola, pre_return, post_return, retirement_age,
                   current_age, current_year, current_salary, contrib_type,
                   bucket_df, buckets, max_payout_year, bidx, balance, sim_year,
                   age, contrib, local_salary, row, payouts, steps>>
    /\ UNCHANGED <<fcVars, ssVars, spVars, lsVars>>

\* balances_df = pd.DataFrame(results); balances_df["Year"] raises KeyError
\* when results is empty, else create_payout_df is called
MakeDataFrame ==
    /\ pc = "for_yr"
    /\ ~(yr < max_payout_year)
    /\ IF results = <<>> THEN pc' = "raised" /\ bidx' = bidx
       ELSE pc' = "create_payout_df" /\ bidx' = 1
    /\ UNCHANGED <<st_error, cola, pre_return, post_return, retirement_age,
                   current_age, current_year, current_salary, contrib_type,
                   bucket_df, buckets, max_payout_year, yr, balance, sim_year,
                   age, contrib, local_salary, row, results, payouts, steps>>
    /\ UNCHANGED <<fcVars, ssVars, spVars, lsVars>>

(***************************************************************************)
(* essp_payout_calc.py: create_payout_df                                   *)
(***************************************************************************)
PayoutForB ==
    /\ pc = "create_payout_df"
    /\ bidx <= Len(buckets)
    /\ ResetBucket(buckets[bidx])
    /\ pc' = "payout_while"
    /\ UNCHANGED <<st_error, cola, pre_return, post_return, retirement_age,
                   current_age, current_year, current_salary, contrib_type,
                   bucket_df, buckets, max_payout_year, yr, bidx, row, results,
                   payouts>>
    /\ UNCHANGED <<fcVars, ssVars, spVars, lsVars>>

\* mutant of PayoutCond: the payout year itself is simulated too
PayoutCond_le(b) == sim_year <= PayoutYear(b)

\* while sim_year < b["payout_year"]
PayoutCond(b) == sim_year < PayoutYear(b)

PayoutStep ==
    /\ pc = "payout_while"
    /\ PayoutCond(buckets[bidx])
    /\ SimulateYear(buckets[bidx])
    /\ UNCHANGED <<pc, st_error, cola, pre_return, post_return, retirement_age,
                   current_age, current_year, current_salary, contrib_type,
                   bucket_df, buckets, max_payout_year, yr, bidx, row, results,
                   payouts>>
    /\ UNCHANGED <<fcVars, ssVars, spVars, lsVars>>

PayoutAppend ==
    /\ pc = "payout_while"
    /\ ~PayoutCond(buckets[bidx])
    /\ payouts' = Append(payouts, [Bucket |-> buckets[bidx].name,
                                   PayoutYear |-> PayoutYear(buckets[bidx]),
                                   PayoutAmount |-> Round2(balance)])
    /\ bidx' = bidx + 1
    /\ pc' = "create_payout_df"
    /\ UNCHANGED <<st_error, cola, pre_return, post_return, retirement_age,
                   current_age, current_year, current_salary, contrib_type,
                   bucket_df, buckets, max_payout_year, yr, balance, sim_year,
                   age, contrib, local_salary, row, results, steps>>
    /\ UNCHANGED <<fcVars, ssVars, spVars, lsVars>>

\* return balances_df, pd.DataFrame(payouts)
ReturnFrames ==
    /\ pc = "create_payout_df"
    /\ bidx > Len(buckets)
    /\ pc' = "done"
    /\ UNCHANGED <<st_error, esspVars, fcVars, ssVars, spVars, lsVars>>

NextEssp ==
    \/ ButtonRunCalculation
    \/ RunCalculationBegin
    \/ ForYr
    \/ ForB
    \/ WhileStep
    \/ RecordEntry
    \/ AppendRow
    \/ MakeDataFrame
    \/ PayoutForB
    \/ PayoutStep
    \/ PayoutAppend
    \/ ReturnFrames

SpecEssp == InitEssp /\ [][NextEssp]_vars

(***************************************************************************)
(* Claims about the bucket calculator                                      *)
(***************************************************************************)
\* The Step Simulator applied n times in one incremental pass from a
\* bucket's own starting state: the unrounded state after n periods.
RECURSIVE IncrementalPass(_, _)
IncrementalPass(b, n) ==
    IF n = 0
    THEN [bal |-> b.starting_balance, c |-> b.starting_contribution,
          sal |-> current_salary]
    ELSE LET p == IncrementalPass(b, n - 1)
             growth == RAdd(One, cola)
         IN IF current_age + (n - 1) >= retirement_age
            THEN [p EXCEPT !.bal = RMul(p.bal, RAdd(One, post_return))]
            ELSE IF contrib_type = "Amount"
            THEN [bal |-> RMul(RAdd(p.bal, p.c), RAdd(One, pre_return)),
                  c |-> RMul(p.c, growth), sal |-> p.sal]
            ELSE [bal |-> RMul(RAdd(p.bal, RMul(p.sal, b.starting_contribution)),
                               RAdd(One, pre_return)),
                  c |-> p.c, sal |-> RMul(p.sal, growth)]

TraceComplete == pc \in {"create_payout_df", "payout_while", "done"}

IsMaxPayoutYear(m) ==
    /\ \E i \in DOMAIN buckets : PayoutYear(buckets[i]) = m
    /\ \A i \in DOMAIN buckets : PayoutYear(buckets[i]) <= m

\* C1: the trace has exactly one row per year of [current_year, max payout
\* year), in increasing order, with Age = current_age + (Year - current_year),
\* and a bucket's entry in a row is null exactly when the row's year is at or
\* after the bucket's payout year.
C1_TraceShape ==
    /\ \A k \in DOMAIN results :
        /\ results[k].Year = current_year + (k - 1)
        /\ results[k].Age = current_age + (results[k].Year - current_year)
        /\ \A i \in DOMAIN buckets :
            /\ buckets[i].name \in DOMAIN results[k].cols
            /\ IsNaN(results[k].cols[buckets[i].name])
                 <=> results[k].Year >= PayoutYear(buckets[i])
    /\ TraceComplete =>
        \E m \in PayoutYears : IsMaxPayoutYear(m) /\ Len(results) = m - current_year

\* C1 witness: a finished trace of several rows in which one bucket has both
\* a non-null and a null entry.
C1_Witness ==
    /\ pc = "done"
    /\ Len(results) >= 3
    /\ \E i \in DOMAIN buckets :
        /\ ~IsNaN(results[1].cols[buckets[i].name])
        /\ IsNaN(results[Len(results)].cols[buckets[i].name])

\* C2: for a bucket with payout_year > current_year the Payout Amount is the
\* balance after exactly payout_year - current_year steps, and equals the
\* bucket's entry in the row of year payout_year - 1, its last non-null entry,
\* whatever the horizon of the trace.
C2_PayoutIsLastEntry ==
    /\ \A k \in DOMAIN payouts :
        LET b == buckets[k]
            n == PayoutYear(b) - current_year
        IN n > 0 =>
            /\ payouts[k].Bucket = b.name
            /\ payouts[k].PayoutAmount = results[n].cols[b.name]
            /\ ~IsNaN(results[n].cols[b.name])
            /\ \A j \in DOMAIN results : j > n => IsNaN(results[j].cols[b.name])
    /\ (pc = "payout_while" /\ PayoutYear(buckets[bidx]) > current_year
           /\ ~(sim_year < PayoutYear(buckets[bidx])))
        => Len(steps) = PayoutYear(buckets[bidx]) - current_year

\* C2 witness: a payout of a bucket that pays out before the horizon and
\* whose balance moved in its last step.
C2_Witness ==
    /\ pc = "done"
    /\ \E k \in DOMAIN payouts :
        /\ PayoutYear(buckets[k]) > current_year
        /\ PayoutYear(buckets[k]) < max_payout_year
        /\ PayoutYear(buckets[k]) - current_year >= 2
        /\ payouts[k].PayoutAmount
             # results[PayoutYear(buckets[k]) - current_year - 1].cols[buckets[k].name]

\* C3: the value recorded at year t < payout_year is the two-decimal rounding
\* of the unrounded balance of one incremental pass through t, and every
\* simulated step starts from the unrounded result of the step before it.
C3_TraceIsRoundedIncrementalPass ==
    /\ \A k \in DOMAIN results : \A i \in DOMAIN buckets :
        results[k].Year < PayoutYear(buckets[i]) =>
            results[k].cols[buckets[i].name]
                = Round2(IncrementalPass(buckets[i], k).bal)
    /\ pc \in {"while", "payout_while"} =>
        \A j \in DOMAIN steps :
            steps[j].before = IF j = 1 THEN buckets[bidx].starting_balance
                              ELSE steps[j - 1].after

\* C3 witness: a recorded value whose rounding differs from the unrounded
\* balance, followed by a later recorded value of the same bucket.
C3_Witness ==
    /\ pc = "done"
    /\ \E i \in DOMAIN buckets :
        /\ PayoutYear(buckets[i]) - current_year >= 2
        /\ IncrementalPass(buckets[i], 1).bal # Round2(IncrementalPass(buckets[i], 1).bal)
        /\ ~IsNaN(results[2].cols[buckets[i].name])

\* What a bucket's own fields and the global inputs alone give for year t.
OwnEntry(b, t) ==
    IF t >= PayoutYear(b) THEN NaN
    ELSE Round2(IncrementalPass(b, t - current_year + 1).bal)

OwnPayout(b) ==
    Round2(IncrementalPass(b, IF PayoutYear(b) > current_year
                              THEN PayoutYear(b) - current_year ELSE 0).bal)

\* C4: buckets are independent: every entry of a bucket in the trace, null
\* or not, and its final payout are the values its own fields and the global
\* inputs determine, whatever the other buckets hold; and each simulation of a
\* bucket starts from that bucket's own fields.
C4_BucketsIndependent ==
    /\ \A k \in DOMAIN results : \A i \in DOMAIN buckets :
        results[k].cols[buckets[i].name] = OwnEntry(buckets[i], results[k].Year)
    /\ \A k \in DOMAIN payouts : payouts[k].PayoutAmount = OwnPayout(buckets[k])
    /\ (pc \in {"while", "payout_while"} /\ steps = <<>>) =>
        /\ balance = buckets[bidx].starting_balance
        /\ contrib_type = "Amount" => contrib = buckets[bidx].starting_contribution
        /\ contrib_type = "Percent" => local_salary = current_salary

\* C4 witness: a finished run of two buckets that differ in every field,
\* where the second bucket's simulations ran after the first's had moved the
\* contribution and the salary.
C4_Witness ==
    /\ pc = "done"
    /\ buckets[1].starting_balance # buckets[2].starting_balance
    /\ buckets[1].starting_contribution # buckets[2].starting_contribution
    /\ PayoutYear(buckets[1]) > PayoutYear(buckets[2])
    /\ PayoutYear(buckets[2]) > current_year
    /\ cola # Zero
    /\ current_age < retirement_age
    /\ payouts[1].PayoutAmount # payouts[2].PayoutAmount

\* C8: in every simulated period the bucket is active exactly when
\* current_age + (period - current_year) < retirement_age; the active periods
\* are a prefix of the timeline, and a period at or after retirement age grows
\* the balance by post_return and adds no contribution.
C8_PhaseByAge ==
    \A k \in DOMAIN steps :
        /\ steps[k].year = current_year + (k - 1)
        /\ steps[k].active
             <=> current_age + (steps[k].year - current_year) < retirement_age
        /\ \A j \in 1 .. k : ~steps[j].active => ~steps[k].active
        /\ current_age + (steps[k].year - current_year) >= retirement_age =>
             steps[k].after = RMul(steps[k].before, RAdd(One, post_return))

\* C8 witness: a simulation that has passed from the active phase to runoff
\* with a contribution that would have changed the balance.
C8_Witness ==
    /\ Len(steps) >= 2
    /\ steps[1].active
    /\ ~steps[Len(steps)].active
    /\ steps[1].added # Zero
    /\ steps[1].after # RMul(steps[1].before, RAdd(One, pre_return))

\* C14 as stated: a runoff step computes B' = B * (1 + post_return) with no
\* contribution, never lowers the balance when the rate is >= 0, and leaves
\* the balance unchanged exactly when the rate is 0: B' = B if and only if
\* post_return = 0.
C14_RunoffUnchangedIffZeroRate ==
    \A k \in DOMAIN steps :
        ~steps[k].active =>
            /\ steps[k].added = Zero
            /\ steps[k].after = RMul(steps[k].before, RAdd(One, post_return))
            /\ RLe(steps[k].before, steps[k].after)
            /\ steps[k].after = steps[k].before <=> post_return = Zero

\* C14, amended: a runoff step computes B' = B * (1 + post_return) with no
\* contribution and never lowers the balance when the rate is >= 0; B' = B
\* whenever the rate is 0, and also whenever B is 0, at any rate.
C14_RunoffStep ==
    \A k \in DOMAIN steps :
        ~steps[k].active =>
            /\ steps[k].added = Zero
            /\ steps[k].after = RMul(steps[k].before, RAdd(One, post_return))
            /\ RLe(steps[k].before, steps[k].after)
            /\ post_return = Zero => steps[k].after = steps[k].before
            /\ steps[k].before = Zero => steps[k].after = steps[k].before

\* C14 witness: create_payout_df has taken a runoff step at rate 0 from a
\* non-zero balance of a bucket with a non-zero contribution.
C14_Witness ==
    /\ pc = "payout_while"
    /\ steps # <<>>
    /\ ~steps[Len(steps)].active
    /\ post_return = Zero
    /\ pre_return # Zero
    /\ steps[Len(steps)].before # Zero
    /\ buckets[bidx].starting_contribution # Zero
    /\ balance = steps[Len(steps)].before

\* C12: every bucket that reaches the simulation has a payout year strictly
\* greater than current_year: a table holding a bucket with payout_year <=
\* current_year is rejected before run_calculation is called.
C12_PayoutYearAfterStart ==
    pc \in {"run_calculation", "for_yr", "for_b", "while", "raised",
            "create_payout_df", "payout_while", "done"}
        => \A i \in DOMAIN bucket_df : PayoutYear(bucket_df[i]) > current_year

(***************************************************************************)
(* contribution_accumulation.py                                            *)
(***************************************************************************)
Date(yy, mm, dd) == [y |-> yy, m |-> mm, d |-> dd]

DateLe(d1, d2) ==
    \/ d1.y < d2.y
    \/ d1.y = d2.y /\ d1.m < d2.m
    \/ d1.y = d2.y /\ d1.m = d2.m /\ d1.d <= d2.d

\* whole years from d2 up to d1, for d2 <= d1
WholeYears(d1, d2) ==
    (d1.y - d2.y) - (IF d1.m < d2.m \/ (d1.m = d2.m /\ d1.d < d2.d) THEN 1 ELSE 0)

\* relativedelta(d1, d2).years: whole years, negative when d1 is before d2
RelativeYears(d1, d2) ==
    IF DateLe(d2, d1) THEN WholeYears(d1, d2) ELSE -WholeYears(d2, d1)

WindowStart == 2026
WindowEnd == 2030
RuleOf55 == 55
MinWorkingAge == 16

\* calculate_contribution_rate
calculate_contribution_rate(yos) ==
    IF yos < 10 THEN <<1, 20>>
    ELSE IF yos < 15 THEN <<3, 50>>
    ELSE IF yos < 20 THEN <<7, 100>>
    ELSE IF yos < 25 THEN <<2, 25>>
    ELSE IF yos < 30 THEN <<9, 100>>
    ELSE <<1, 10>>

\* mutant of apply_rule_of_55: the window has no end
apply_rule_of_55_open(age55, yos55, cy) ==
    IF age55 + yos55 >= RuleOf55 /\ cy >= WindowStart THEN <<1, 25>> ELSE Zero

\* apply_rule_of_55
apply_rule_of_55(age55, yos55, cy) ==
    IF age55 + yos55 >= RuleOf55 /\ cy >= WindowStart /\ cy <= WindowEnd
    THEN <<1, 25>> ELSE Zero

\* validate_hire_date: TRUE when the hire date is accepted
validate_hire_date(birth, hired) == ~(RelativeYears(hired, birth) < MinWorkingAge)

NowDates == {Date(2024, 3, 1), Date(2026, 3, 1), Date(2029, 3, 1)}
Dobs == {Date(1975, 1, 1), Date(1975, 7, 1)}
HireDateInputs == {<<>>, <<Date(2021, 6, 1)>>, <<Date(1985, 6, 1)>>}
YearsOfServiceInputs == {<<>>, <<3>>, <<10>>}
EligiblePays == {Num(100)}
ForecastRates == {Zero, <<1, 2>>}

InitForecast ==
    /\ pc = "forecast_form"
    /\ st_error = ""
    /\ now \in NowDates
    /\ dob \in Dobs
    /\ hire_date_input \in HireDateInputs
    /\ years_of_service_input \in YearsOfServiceInputs
    /\ eligible_pay \in EligiblePays
    /\ rate_of_return \in ForecastRates
    /\ pay_growth_rate \in ForecastRates
    /\ \E k \in -1 .. MaxForecastYears :
        target_age = RelativeYears(Date(now.y, 1, 1), dob) + k
    /\ years_of_service = 0
    /\ total_contributions = Zero
    /\ reference_age = 0
    /\ years_until_target = 0
    /\ salary = Zero
    /\ age_on_2025 = 0
    /\ yos_now = 0
    /\ year = 0
    /\ service_credit_rate = Zero
    /\ data = <<>>
    /\ EsspNotRunning
    /\ SharePlanNotRunning
    /\ LumpSumNotRunning
    /\ BreakevenNotRunning

\* if st.button("Run Forecast")
ButtonRunForecast ==
    /\ pc = "forecast_form"
    /\ IF hire_date_input # <<>> /\ years_of_service_input # <<>>
       THEN /\ st_error' = "Please provide either a Hire Date or Years of Service, not both."
            /\ pc' = "forecast_stopped"
            /\ years_of_service' = years_of_service
       ELSE IF hire_date_input # <<>>
       THEN IF ~validate_hire_date(dob, hire_date_input[1])
            THEN /\ st_error' = "Error: Hire date shows the person started working too young."
                 /\ pc' = "forecast_stopped"
                 /\ years_of_service' = years_of_service
            ELSE /\ years_of_service' = RelativeYears(Date(2026, 1, 1), hire_date_input[1])
                 /\ pc' = "forecast_contributions"
                 /\ st_error' = st_error
       ELSE IF years_of_service_input # <<>>
       THEN /\ years_of_service' = years_of_service_input[1]
            /\ pc' = "forecast_contributions"
            /\ st_error' = st_error
       ELSE /\ st_error' = "Please provide either a Hire Date or Years of Service."
            /\ pc' = "forecast_stopped"
            /\ years_of_service' = years_of_service
    /\ UNCHANGED <<now, dob, hire_date_input, years_of_service_input, eligible_pay,
                   rate_of_return, pay_growth_rate, target_age,
                   total_contributions, reference_age, years_until_target,
                   salary, age_on_2025, yos_now, year, service_credit_rate, data>>
    /\ UNCHANGED <<esspVars, ssVars, spVars, lsVars>>

\* forecast_contributions up to the loop: the validation and the values
\* computed once
ForecastBegin ==
    /\ pc = "forecast_contributions"
    /\ LET ref == RelativeYears(Date(now.y, 1, 1), dob) IN
       IF hire_date_input # <<>> /\ ~validate_hire_date(dob, hire_date_input[1])
       THEN /\ st_error' = "Error: Hire date shows the person started working too young."
            /\ pc' = "forecast_returned"
            /\ UNCHANGED <<total_contributions, reference_age, years_until_target,
                           salary, age_on_2025, yos_now, year>>
       ELSE IF target_age - ref <= 0
       THEN /\ st_error' = "Target age is less than or equal to your age. Please choose a valid target age."
            /\ pc' = "forecast_returned"
            /\ total_contributions' = Zero
            /\ reference_age' = ref
            /\ years_until_target' = target_age - ref
            /\ UNCHANGED <<salary, age_on_2025, yos_now, year>>
       ELSE /\ st_error' = st_error
            /\ pc' = "forecast_for_year"
            /\ total_contributions' = Zero
            /\ reference_age' = ref
            /\ years_until_target' = target_age - ref
            /\ salary' = eligible_pay
            /\ age_on_2025' = RelativeYears(Date(2025, 12, 31), dob)
            /\ yos_now' = IF hire_date_input # <<>>
                          THEN RelativeYears(now, hire_date_input[1])
                          ELSE years_of_service
            /\ year' = now.y
    /\ UNCHANGED <<now, dob, hire_date_input, years_of_service_input, eligible_pay,
                   rate_of_return, pay_growth_rate, target_age, years_of_service,
                   service_credit_rate, data>>
    /\ UNCHANGED <<esspVars, ssVars, spVars, lsVars>>

\* one iteration of: for year in range(current_year, current_year + years_until_target + 1)
ForecastYear ==
    /\ pc = "forecast_for_year"
    /\ year <= now.y + years_until_target
    /\ LET regular_contribution_rate == calculate_contribution_rate(yos_now)
           credit_rate == apply_rule_of_55(age_on_2025, yos_now, year)
           annual_regular_contribution ==
               IF year >= WindowStart THEN RMul(salary, regular_contribution_rate) ELSE Zero
           annual_service_credits ==
               IF year >= WindowStart THEN RMul(salary, credit_rate) ELSE Zero
           contributed ==
               IF year >= WindowStart
               THEN RAdd(total_contributions,
                         RAdd(annual_regular_contribution, annual_service_credits))
               ELSE total_contributions
           grown == RMul(contributed, RAdd(One, rate_of_return))
       IN /\ service_credit_rate' = credit_rate
          /\ total_contributions' = grown
          /\ data' = Append(data,
                 [Year |-> year,
                  Age |-> reference_age + (year - now.y),
                  YearsOfService |-> yos_now,
                  Salary |-> salary,
                  RegularContributionRatePct |->
                      IF year >= WindowStart
                      THEN RMul(regular_contribution_rate, Num(100)) ELSE Zero,
                  ServiceCreditRatePct |->
                      IF year >= WindowStart THEN RMul(credit_rate, Num(100)) ELSE Zero,
                  AnnualRegularContribution |-> annual_regular_contribution,
                  AnnualServiceCredits |-> annual_service_credits,
                  TotalAccumulatedAssets |-> grown])
    /\ salary' = RMul(salary, RAdd(One, pay_growth_rate))
    /\ yos_now' = yos_now + 1
    /\ year' = year + 1
    /\ UNCHANGED <<pc, st_error, now, dob, hire_date_input, years_of_service_input,
                   eligible_pay, rate_of_return, pay_growth_rate, target_age,
                   years_of_service, reference_age, years_until_target, age_on_2025>>
    /\ UNCHANGED <<esspVars, ssVars, spVars, lsVars>>

\* after the loop: the table and the chart are shown
ForecastShow ==
    /\ pc = "forecast_for_year"
    /\ ~(year <= now.y + years_until_target)
    /\ pc' = "forecast_done"
    /\ UNCHANGED <<st_error, fcVars, esspVars, ssVars, spVars, lsVars>>

NextForecast ==
    \/ ButtonRunForecast
    \/ ForecastBegin
    \/ ForecastYear
    \/ ForecastShow

SpecForecast == InitForecast /\ [][NextForecast]_vars

(***************************************************************************)
(* Claims about the retirement forecast                                    *)
(***************************************************************************)
InWindow(y) == y >= 2026 /\ y <= 2030

\* C9: the service-credit rate is 0.04 only in the years 2026..2030 and is 0
\* in every year before 2026 and after 2030, so Annual Service Credits is 0
\* in every row outside the window, also for a person with age + service >= 55.
C9_CreditOnlyInWindow ==
    /\ \A k \in DOMAIN data :
        /\ data[k].ServiceCreditRatePct \in {Zero, Num(4)}
        /\ data[k].AnnualServiceCredits
             = RMul(data[k].Salary, RMul(data[k].ServiceCreditRatePct, <<1, 100>>))
        /\ ~InWindow(data[k].Year) =>
             /\ data[k].ServiceCreditRatePct = Zero
             /\ data[k].AnnualServiceCredits = Zero
    /\ data # <<>> =>
        /\ service_credit_rate \in {Zero, <<1, 25>>}
        /\ ~InWindow(data[Len(data)].Year) => service_credit_rate = Zero

\* C9 witness: a run of a person who passes the age + service test in every
\* row, with a credited year inside the window and a row after 2030.
C9_Witness ==
    /\ pc = "forecast_done"
    /\ \A k \in DOMAIN data : age_on_2025 + data[k].YearsOfService >= 55
    /\ \E k \in DOMAIN data :
        InWindow(data[k].Year) /\ data[k].AnnualServiceCredits # Zero
    /\ \E k \in DOMAIN data : data[k].Year > 2030 /\ data[k].Salary # Zero

\* C10: eligibility is decided once, on the values as of 31 December 2025:
\* within one run the years 2026..2030 either all receive the extra 4% or none
\* does, and a person who fails the test at the reference date receives no
\* service credit in any year.
C10_EligibilityFixedAtReference ==
    /\ \A j, k \in DOMAIN data :
        (InWindow(data[j].Year) /\ InWindow(data[k].Year)) =>
            data[j].ServiceCreditRatePct = data[k].ServiceCreditRatePct
    /\ (hire_date_input # <<>>
          /\ RelativeYears(Date(2025, 12, 31), dob)
               + RelativeYears(Date(2025, 12, 31), hire_date_input[1]) < 55)
        => \A k \in DOMAIN data : data[k].AnnualServiceCredits = Zero

(***************************************************************************)
(* ss_breakeven.py: build_monthly_series                                   *)
(***************************************************************************)
\* the largest horizon_age drawn is claim_age + MaxSeriesYears
MaxSeriesYears == 2

DateLt(d1, d2) == ~DateLe(d2, d1)

\* (d1.month, d1.day) < (d2.month, d2.day)
MonthDayLt(d1, d2) == d1.m < d2.m \/ (d1.m = d2.m /\ d1.d < d2.d)

first_of_next_month(dt) ==
    Date(dt.y + (IF dt.m = 12 THEN 1 ELSE 0), IF dt.m = 12 THEN 1 ELSE dt.m + 1, 1)

claim_month(b, ca) == Date(b.y + ca, b.m, 1)

first_payment_month(b, ca, lag) ==
    IF lag THEN first_of_next_month(claim_month(b, ca)) ELSE claim_month(b, ca)

end_boundary_month(b, ea) == Date(b.y + ea, b.m, 1)

\* the while loop of the two count_preclaim_steps functions: the number of
\* the dates from, from + 1 year, ... that are before until
RECURSIVE YearlyStepsBefore(_, _)
YearlyStepsBefore(from, until) ==
    IF DateLt(from, until)
    THEN 1 + YearlyStepsBefore(Date(from.y + 1, from.m, 1), until)
    ELSE 0

count_preclaim_steps_january(cd, first_pay_month) ==
    LET jan == Date(cd.y + (IF DateLe(Date(cd.y, 1, 1), cd) THEN 1 ELSE 0), 1, 1)
        first_jan == IF DateLe(jan, cd) THEN Date(cd.y + 1, 1, 1) ELSE jan
    IN YearlyStepsBefore(first_jan, first_pay_month)

count_preclaim_steps_birthday(b, cd, ca) ==
    LET next_bd_year == IF MonthDayLt(cd, b) THEN cd.y ELSE cd.y + 1
    IN YearlyStepsBefore(Date(next_bd_year, b.m, 1), claim_month(b, ca))

years_since_claim_birthday(b, dt, ca) ==
    LET cm == claim_month(b, ca)
        years == (dt.y - cm.y) - (IF MonthDayLt(dt, cm) THEN 1 ELSE 0)
    IN IF DateLt(dt, cm) THEN 0
       ELSE IF years > 0 THEN years ELSE 0

\* x ** k
RECURSIVE RPow(_, _)
RPow(x, k) == IF k = 0 THEN One ELSE RMul(x, RPow(x, k - 1))

\* if apply_cola_from_today and cola_rate > 0
ColaApplies == apply_cola_from_today /\ RLt(Zero, cola_rate)

BirthDates == {Date(1960, 12, 15), Date(1960, 6, 1)}
CurrentDates == {Date(2020, 6, 10), Date(2022, 12, 20)}
ClaimAges == {62}
MonthlyBenefits == {Zero, Num(100)}
ColaRates == {Zero, <<1, 2>>}
ColaTimings == {"january", "birthday"}

InitSeries ==
    /\ pc = "build_monthly_series"
    /\ st_error = ""
    /\ birth_date \in BirthDates
    /\ current_date \in CurrentDates
    /\ claim_age \in ClaimAges
    /\ monthly_at_claim_today \in MonthlyBenefits
    /\ \E h \in 0 .. MaxSeriesYears : horizon_age = claim_age + h
    /\ cola_rate \in ColaRates
    /\ apply_cola_from_today \in BOOLEAN
    /\ cola_timing \in ColaTimings
    /\ use_payment_lag \in BOOLEAN
    /\ start_m = NoDate
    /\ start_amt = Zero
    /\ end_ex = NoDate
    /\ month_list = <<>>
    /\ month_d = NoDate
    /\ series = <<>>
    /\ cum = Zero
    /\ amt = Zero
    /\ series_idx = 0
    /\ FinderNotRunning
    /\ EsspNotRunning
    /\ SharePlanNotRunning
    /\ LumpSumNotRunning
    /\ ForecastNotRunning

bmsInputs == <<birth_date, current_date, claim_age, monthly_at_claim_today,
               horizon_age, cola_rate, apply_cola_from_today, cola_timing,
               use_payment_lag>>

finderVars == <<sa, sb, months, out_a, out_b, pa, pb, month_idx, scan_i, breakeven>>

\* build_monthly_series up to the while loop: the first payment month, the
\* amount at claim after the pre-claim COLA steps, the exclusive end
SeriesBegin ==
    /\ pc = "build_monthly_series"
    /\ LET first == first_payment_month(birth_date, claim_age, use_payment_lag)
           pre == IF cola_timing = "january"
                  THEN count_preclaim_steps_january(current_date, first)
                  ELSE count_preclaim_steps_birthday(birth_date, current_date, claim_age)
       IN /\ start_m' = first
          /\ start_amt' = IF ColaApplies
                          THEN RMul(monthly_at_claim_today,
                                    RPow(RAdd(One, cola_rate), pre))
                          ELSE monthly_at_claim_today
          /\ month_d' = first
    /\ end_ex' = end_boundary_month(birth_date, horizon_age)
    /\ month_list' = <<>>
    /\ pc' = "months_while"
    /\ UNCHANGED <<st_error, bmsInputs, series, cum, amt, series_idx>>
    /\ UNCHANGED <<finderVars, esspVars, fcVars, spVars, lsVars>>

\* mutant of BeforeEnd: the month of the horizon birthday is paid too
BeforeEnd_le(dt) == DateLe(dt, end_ex)

\* while d < end_ex
BeforeEnd(dt) == DateLt(dt, end_ex)

MonthsStep ==
    /\ pc = "months_while"
    /\ BeforeEnd(month_d)
    /\ month_list' = Append(month_list, month_d)
    /\ month_d' = first_of_next_month(month_d)
    /\ UNCHANGED <<pc, st_error, bmsInputs, start_m, start_amt, end_ex, series,
                   cum, amt, series_idx>>
    /\ UNCHANGED <<finderVars, esspVars, fcVars, spVars, lsVars>>

\* series, cum, amt = [], 0.0, start_amt
MonthsEnd ==
    /\ pc = "months_while"
    /\ ~BeforeEnd(month_d)
    /\ series' = <<>>
    /\ cum' = Zero
    /\ amt' = start_amt
    /\ series_idx' = 1
    /\ pc' = "for_d_in_months"
    /\ UNCHANGED <<st_error, bmsInputs, start_m, start_amt, end_ex, month_list,
                   month_d>>
    /\ UNCHANGED <<finderVars, esspVars, fcVars, spVars, lsVars>>

\* one iteration of for d in months
SeriesStep ==
    /\ pc = "for_d_in_months"
    /\ series_idx <= Len(month_list)
    /\ LET dt == month_list[series_idx]
           paid == IF ColaApplies /\ cola_timing = "birthday"
                   THEN RMul(start_amt,
                             RPow(RAdd(One, cola_rate),
                                  years_since_claim_birthday(birth_date, dt, claim_age)))
                   ELSE amt
           total == RAdd(cum, paid)
       IN /\ cum' = total
          /\ series' = Append(series, <<dt, total>>)
          /\ amt' = IF ColaApplies /\ cola_timing = "january"
                       /\ first_of_next_month(dt).m = 1
                    THEN RMul(paid, RAdd(One, cola_rate))
                    ELSE paid
    /\ series_idx' = series_idx + 1
    /\ UNCHANGED <<pc, st_error, bmsInputs, start_m, start_amt, end_ex,
                   month_list, month_d>>
    /\ UNCHANGED <<finderVars, esspVars, fcVars, spVars, lsVars>>

\* return series
SeriesReturn ==
    /\ pc = "for_d_in_months"
    /\ series_idx > Len(month_list)
    /\ pc' = "series_returned"
    /\ UNCHANGED <<st_error, bmsVars, finderVars, esspVars, fcVars, spVars, lsVars>>

NextSeries ==
    \/ SeriesBegin
    \/ MonthsStep
    \/ MonthsEnd
    \/ SeriesStep
    \/ SeriesReturn

SpecSeries == InitSeries /\ [][NextSeries]_vars

(***************************************************************************)
(* Claims about the monthly series                                         *)
(***************************************************************************)
\* a first-of-month date as a count of months
MonthNo(dt) == dt.y * 12 + (dt.m - 1)

\* the month of the first payment and of the horizon birthday, counted from
\* the inputs
FirstPaymentNo ==
    (birth_date.y + claim_age) * 12 + (birth_date.m - 1)
        + (IF use_payment_lag THEN 1 ELSE 0)

HorizonNo == (birth_date.y + horizon_age) * 12 + (birth_date.m - 1)

\* C11: for a non-negative monthly benefit and a COLA rate >= 0, under both
\* COLA timings and with or without payment lag, the series of
\* build_monthly_series holds consecutive, strictly increasing months from
\* the first payment month up to, and excluding, the month of the horizon
\* birthday, and its cumulative value never decreases in month order.
C11_SeriesMonthsAndCumulative ==
    /\ \A k \in DOMAIN series :
        /\ series[k][1].d = 1
        /\ series[k][1].m \in 1 .. 12
        /\ MonthNo(series[k][1]) = FirstPaymentNo + (k - 1)
        /\ MonthNo(series[k][1]) < HorizonNo
        /\ k > 1 => /\ DateLt(series[k - 1][1], series[k][1])
                    /\ RLe(series[k - 1][2], series[k][2])
    /\ pc = "series_returned" =>
        Len(series) = IF HorizonNo > FirstPaymentNo
                      THEN HorizonNo - FirstPaymentNo ELSE 0

\* C11 witness: a returned series of more than a year that starts in January
\* because of the payment lag, whose monthly amount was raised by the COLA
\* after the first payment.
C11_Witness ==
    /\ pc = "series_returned"
    /\ use_payment_lag
    /\ ColaApplies
    /\ Len(series) > 12
    /\ series[1][1].m = 1
    /\ RLt(Zero, series[1][2])
    /\ RLt(RAdd(series[1][2], series[1][2]), series[Len(series)][2])
    /\ RAdd(series[Len(series) - 1][2], series[1][2]) # series[Len(series)][2]

(***************************************************************************)
(* ss_breakeven.py: align_series and find_breakeven_month                  *)
(* A month is the number of a first-of-month date; a cumulative value is a *)
(* float holding a whole amount.                                           *)
(***************************************************************************)
Months(s) == {s[k][1] : k \in DOMAIN s}

\* a series as build_monthly_series returns it: months strictly increasing,
\* the cumulative value never decreasing
IsSeries(s) ==
    \A k \in DOMAIN s : k > 1 => s[k - 1][1] < s[k][1] /\ s[k - 1][2] <= s[k][2]

SeriesOfLen(n) ==
    {s \in [1 .. n -> (0 .. MaxMonths - 1) \X (0 .. MaxValue)] : IsSeries(s)}

AllSeries == UNION {SeriesOfLen(n) : n \in 0 .. MaxMonths}

\* the breakeven scenario of the specification's testable properties
ExampleA == <<<<0, 0>>, <<1, 100>>, <<2, 200>>, <<3, 300>>>>
ExampleB == <<<<0, 50>>, <<1, 120>>, <<2, 180>>, <<3, 320>>>>

RECURSIVE SortedSeq_desc(_)
\* mutant of SortedSeq: the months are put in descending order
SortedSeq_desc(S) ==
    IF S = {} THEN <<>>
    ELSE LET greatest == CHOOSE x \in S : \A z \in S : z <= x
         IN <<greatest>> \o SortedSeq_desc(S \ {greatest})

RECURSIVE SortedSeq(_)
\* sorted(set(...))
SortedSeq(S) ==
    IF S = {} THEN <<>>
    ELSE LET least == CHOOSE x \in S : \A z \in S : x <= z
         IN <<least>> \o SortedSeq(S \ {least})

\* la = {d: v for d, v in sa}: the value of the last entry of month d
DictValue(s, d) ==
    LET last == CHOOSE k \in DOMAIN s :
                    s[k][1] = d /\ \A j \in DOMAIN s : s[j][1] = d => j <= k
    IN s[last][2]

InitBreakeven ==
    /\ pc = "find_breakeven_month"
    /\ st_error = ""
    /\ \/ sa \in AllSeries /\ sb \in AllSeries
       \/ sa = ExampleA /\ sb = ExampleB
    /\ months = <<>>
    /\ out_a = <<>>
    /\ out_b = <<>>
    /\ pa = 0
    /\ pb = 0
    /\ month_idx = 0
    /\ scan_i = 0
    /\ breakeven = <<>>
    /\ SeriesNotRunning
    /\ EsspNotRunning
    /\ SharePlanNotRunning
    /\ LumpSumNotRunning
    /\ ForecastNotRunning

\* mutant of EitherEmpty: None only when both series are empty
EitherEmpty_both == sa = <<>> /\ sb = <<>>

\* if not sa or not sb
EitherEmpty == sa = <<>> \/ sb = <<>>

\* find_breakeven_month up to the call of align_series, and the first lines
\* of align_series
FindBegin ==
    /\ pc = "find_breakeven_month"
    /\ IF EitherEmpty
       THEN /\ breakeven' = <<>>
            /\ pc' = "returned"
            /\ UNCHANGED <<months, pa, pb, month_idx>>
       ELSE /\ months' = SortedSeq(Months(sa) \cup Months(sb))
            /\ pa' = 0
            /\ pb' = 0
            /\ month_idx' = 1
            /\ pc' = "align_series"
            /\ breakeven' = breakeven
    /\ out_a' = <<>>
    /\ out_b' = <<>>
    /\ UNCHANGED <<st_error, sa, sb, scan_i, esspVars, fcVars, bmsVars, spVars, lsVars>>

\* align_series: one iteration of for d in months
AlignStep ==
    /\ pc = "align_series"
    /\ month_idx <= Len(months)
    /\ LET d == months[month_idx]
           na == IF d \in Months(sa) THEN DictValue(sa, d) ELSE pa
           nb == IF d \in Months(sb) THEN DictValue(sb, d) ELSE pb
       IN /\ pa' = na
          /\ pb' = nb
          /\ out_a' = Append(out_a, <<d, na>>)
          /\ out_b' = Append(out_b, <<d, nb>>)
    /\ month_idx' = month_idx + 1
    /\ UNCHANGED <<pc, st_error, sa, sb, months, scan_i, breakeven, esspVars, fcVars, bmsVars, spVars, lsVars>>

\* return out_a, out_b; the scan starts at i = 1
AlignReturn ==
    /\ pc = "align_series"
    /\ month_idx > Len(months)
    /\ scan_i' = 1
    /\ pc' = "scan"
    /\ UNCHANGED <<st_error, sa, sb, months, out_a, out_b, pa, pb, month_idx,
                   breakeven, esspVars, fcVars, bmsVars, spVars, lsVars>>

\* a[i][1] - b[i][1] for the index i of the source, which counts from 0
DiffAt(i) == out_a[i + 1][2] - out_b[i + 1][2]

\* one iteration of for i in range(1, len(a))
ScanStep ==
    /\ pc = "scan"
    /\ scan_i < Len(out_a)
    /\ LET y0 == DiffAt(scan_i - 1)
           y1 == DiffAt(scan_i)
       IN IF y0 = 0
          THEN breakeven' = <<out_a[scan_i][1]>> /\ pc' = "returned" /\ scan_i' = scan_i
          ELSE IF y0 * y1 < 0
          THEN breakeven' = <<out_a[scan_i + 1][1]>> /\ pc' = "returned"
               /\ scan_i' = scan_i
          ELSE breakeven' = breakeven /\ pc' = pc /\ scan_i' = scan_i + 1
    /\ UNCHANGED <<st_error, sa, sb, months, out_a, out_b, pa, pb, month_idx,
                   esspVars, fcVars, bmsVars, spVars, lsVars>>

\* the loop ends: return None
ScanEnd ==
    /\ pc = "scan"
    /\ ~(scan_i < Len(out_a))
    /\ breakeven' = <<>>
    /\ pc' = "returned"
    /\ UNCHANGED <<st_error, sa, sb, months, out_a, out_b, pa, pb, month_idx,
                   scan_i, esspVars, fcVars, bmsVars, spVars, lsVars>>

NextBreakeven ==
    \/ FindBegin
    \/ AlignStep
    \/ AlignReturn
    \/ ScanStep
    \/ ScanEnd

SpecBreakeven == InitBreakeven /\ [][NextBreakeven]_vars

(***************************************************************************)
(* Claims about the Breakeven Finder                                       *)
(***************************************************************************)
\* the periods of the aligned range, in order
Periods == SortedSeq(Months(sa) \cup Months(sb))

\* a series' value at month d, forward filled: 0 before its first entry
FilledValue(s, d) ==
    IF \E k \in DOMAIN s : s[k][1] <= d
    THEN LET latest == CHOOSE k \in DOMAIN s :
                           s[k][1] <= d /\ \A j \in DOMAIN s : s[j][1] <= d => j <= k
         IN s[latest][2]
    ELSE 0

Difference(k) == FilledValue(sa, Periods[k]) - FilledValue(sb, Periods[k])

OppositeSigns(x, z) == (x < 0 /\ z > 0) \/ (x > 0 /\ z < 0)

\* the difference at period k is zero or opposite in sign to the one before
Crossing(k) ==
    Difference(k) = 0 \/ (k > 1 /\ OppositeSigns(Difference(k - 1), Difference(k)))

\* C5: for two non-empty series find_breakeven_month returns the first
\* period of the aligned range at which the difference is exactly zero or has
\* the opposite sign to the difference at the previous period.
C5_FirstCrossingReturned ==
    (pc = "returned" /\ sa # <<>> /\ sb # <<>>) =>
        \A k \in DOMAIN Periods :
            (Crossing(k) /\ \A j \in 1 .. k - 1 : ~Crossing(j))
                => breakeven = <<Periods[k]>>

\* C6: find_breakeven_month returns None when the difference is non-zero and
\* of one sign at every period of the aligned range, and when either series
\* is empty; every call returns.
C6_NoBreakevenSentinel ==
    /\ (pc = "returned" /\ (sa = <<>> \/ sb = <<>>)) => breakeven = <<>>
    /\ (pc = "returned" /\ sa # <<>> /\ sb # <<>>
          /\ \A k \in DOMAIN Periods : ~Crossing(k)) => breakeven = <<>>
    /\ pc \in {"find_breakeven_month", "align_series", "scan", "returned"}
    /\ pc = "scan" => scan_i >= 1 /\ scan_i <= Len(out_a) /\ Len(out_a) = Len(out_b)
    /\ pc = "align_series" => month_idx >= 1 /\ month_idx <= Len(months) + 1

\* C6 witness: two series over several periods that never cross, scanned to
\* the end.
C6_Witness ==
    /\ pc = "returned"
    /\ sa # <<>> /\ sb # <<>>
    /\ Len(Periods) >= 3
    /\ \A k \in DOMAIN Periods : ~Crossing(k)
    /\ scan_i = Len(out_a)
    /\ breakeven = <<>>

\* align_series has returned
Aligned == pc = "scan" \/ (pc = "returned" /\ sa # <<>> /\ sb # <<>>)

\* C17: align_series returns two series of equal length over the sorted
\* union of the months of its inputs; the value of an output at a month is 0
\* when its input has no entry at or before the month, and otherwise the
\* value of the input's latest entry at or before the month.
C17_AlignForwardFills ==
    /\ Len(out_a) = Len(out_b)
    /\ \A k \in DOMAIN out_a :
        /\ out_a[k][1] = out_b[k][1]
        /\ out_a[k][1] \in Months(sa) \cup Months(sb)
        /\ k > 1 => out_a[k - 1][1] < out_a[k][1]
        /\ out_a[k][2] = FilledValue(sa, out_a[k][1])
        /\ out_b[k][2] = FilledValue(sb, out_b[k][1])
    /\ Aligned =>
        {out_a[k][1] : k \in DOMAIN out_a} = Months(sa) \cup Months(sb)

\* C17 witness: an aligned pair in which the first series has no entry yet
\* at the first month and none at a later month, where its earlier value is
\* carried.
C17_Witness ==
    /\ pc = "scan"
    /\ Len(out_a) >= 3
    /\ out_a[1][1] \notin Months(sa)
    /\ out_a[1][2] = 0
    /\ \E k \in DOMAIN out_a :
        /\ k > 1
        /\ out_a[k][1] \notin Months(sa)
        /\ out_a[k][2] # 0
        /\ out_a[k][2] = out_a[k - 1][2]

(***************************************************************************)
(* share_plan_accumulation.py                                              *)
(***************************************************************************)
\* the years drawn run from start_year to at most start_year + MaxShareYears - 1
MaxShareYears == 3

DefaultStartYear == 2032

RNeg(x) == <<-x[1], x[2]>>

SharesPerYear == {Zero, Num(10)}
SharePrices == {Num(32)}
TaxRates == {Zero, <<1, 4>>, One}
GrowthRates == {Zero, <<1, 8>>}

InitSharePlan ==
    /\ pc = "share_plan"
    /\ st_error = ""
    /\ start_year = DefaultStartYear
    /\ \E n \in 0 .. MaxShareYears : end_year = start_year + n - 1
    /\ shares_per_year \in SharesPerYear
    /\ share_price \in SharePrices
    /\ tax_rate \in TaxRates
    /\ growth_rate \in GrowthRates
    /\ share_years = <<>>
    /\ net_values = <<>>
    /\ net_idx = 0
    /\ accumulated = Zero
    /\ accumulated_values = <<>>
    /\ EsspNotRunning
    /\ ForecastNotRunning
    /\ BreakevenNotRunning
    /\ LumpSumNotRunning

spInputs == <<start_year, end_year, shares_per_year, share_price, tax_rate,
              growth_rate>>

\* df["Net Value"] of one row: gross value times (1 - tax rate)
NetValue == RMul(RMul(shares_per_year, share_price), RAdd(One, RNeg(tax_rate)))

\* the frame of one row per year of range(start_year, end_year + 1)
SharePlanTable ==
    /\ pc = "share_plan"
    /\ share_years' = [k \in 1 .. (IF end_year >= start_year
                                   THEN end_year - start_year + 1 ELSE 0)
                          |-> start_year + (k - 1)]
    /\ net_values' = [k \in 1 .. (IF end_year >= start_year
                                  THEN end_year - start_year + 1 ELSE 0)
                         |-> NetValue]
    /\ accumulated' = Zero
    /\ accumulated_values' = <<>>
    /\ net_idx' = 1
    /\ pc' = "for_net"
    /\ UNCHANGED <<st_error, spInputs, esspVars, fcVars, ssVars, lsVars>>

\* accumulated += net; accumulated *= (1 + growth_rate)
Accumulate(acc, net) == RMul(RAdd(acc, net), RAdd(One, growth_rate))

\* one iteration of for net in df["Net Value"]
AccumulateStep ==
    /\ pc = "for_net"
    /\ net_idx <= Len(net_values)
    /\ accumulated' = Accumulate(accumulated, net_values[net_idx])
    /\ accumulated_values' = Append(accumulated_values,
                                    Accumulate(accumulated, net_values[net_idx]))
    /\ net_idx' = net_idx + 1
    /\ UNCHANGED <<pc, st_error, spInputs, share_years, net_values>>
    /\ UNCHANGED <<esspVars, fcVars, ssVars, lsVars>>

\* df["Accumulated Value"] = accumulated_values; the table is shown
SharePlanShow ==
    /\ pc = "for_net"
    /\ net_idx > Len(net_values)
    /\ pc' = "share_plan_done"
    /\ UNCHANGED <<st_error, spVars, esspVars, fcVars, ssVars, lsVars>>

NextSharePlan ==
    \/ SharePlanTable
    \/ AccumulateStep
    \/ SharePlanShow

SpecSharePlan == InitSharePlan /\ [][NextSharePlan]_vars

(***************************************************************************)
(* The three accumulators: buckets, retirement contributions, share plan   *)
(***************************************************************************)
InitAccumulators == InitEssp \/ InitForecast \/ InitSharePlan

NextAccumulators == NextEssp \/ NextForecast \/ NextSharePlan

SpecAccumulators == InitAccumulators /\ [][NextAccumulators]_vars

\* add the contribution, then grow
AddThenGrow(bal, c, r) == RMul(RAdd(bal, c), RAdd(One, r))

PreviousTotal(k) == IF k = 1 THEN Zero ELSE data[k - 1].TotalAccumulatedAssets

PreviousAccumulated(k) == IF k = 1 THEN Zero ELSE accumulated_values[k - 1]

\* C13: one active-phase step computes B' = (B + C) * (1 + r), the
\* contribution added before the growth is applied, and with B >= 0 reached
\* from a validated starting balance, C >= 0 and r >= 0 it gives B' >= B; the
\* bucket, the retirement-contribution and the share-plan accumulators all
\* add first and grow second.
C13_ActiveStepAddsThenGrows ==
    /\ \A k \in DOMAIN steps :
        steps[k].active =>
            /\ steps[k].after
                 = AddThenGrow(steps[k].before, steps[k].added, pre_return)
            /\ RLe(Zero, steps[k].before)
            /\ RLe(Zero, steps[k].added)
            /\ RLe(steps[k].before, steps[k].after)
    /\ (pc \in {"while", "payout_while"} /\ steps # <<>>)
        => balance = steps[Len(steps)].after
    /\ \A k \in DOMAIN data :
        /\ data[k].TotalAccumulatedAssets
             = AddThenGrow(PreviousTotal(k),
                           RAdd(data[k].AnnualRegularContribution,
                                data[k].AnnualServiceCredits),
                           rate_of_return)
        /\ RLe(PreviousTotal(k), data[k].TotalAccumulatedAssets)
    /\ data # <<>> => total_contributions = data[Len(data)].TotalAccumulatedAssets
    /\ \A k \in DOMAIN accumulated_values :
        /\ accumulated_values[k]
             = AddThenGrow(PreviousAccumulated(k), net_values[k], growth_rate)
        /\ RLe(PreviousAccumulated(k), accumulated_values[k])
    /\ accumulated_values # <<>>
        => accumulated = accumulated_values[Len(accumulated_values)]

\* C13 witness: a second active year of a bucket with a non-zero balance, a
\* non-zero contribution and a non-zero return, where adding after growing
\* would give another balance.
C13_Witness ==
    /\ pc = "while"
    /\ Len(steps) = 2
    /\ steps[2].active
    /\ steps[2].before # Zero
    /\ steps[2].added # Zero
    /\ pre_return # Zero
    /\ steps[2].after
         # RAdd(RMul(steps[2].before, RAdd(One, pre_return)), steps[2].added)
    /\ RLt(steps[2].before, steps[2].after)

(***************************************************************************)
(* Claims about the contribution of a period                               *)
(***************************************************************************)
\* the simulation in progress is the one of bucket i, with n periods done
Simulated(i, n) ==
    /\ pc \in {"while", "payout_while"}
    /\ bidx = i
    /\ Len(steps) = n

\* in Amount mode the contribution of the t-th active period is the
\* starting contribution after t - 1 COLA steps
AmountContributionByPeriod ==
    (pc \in {"while", "payout_while"} /\ contrib_type = "Amount") =>
        \A t \in DOMAIN steps :
            steps[t].active =>
                steps[t].added = RMul(buckets[bidx].starting_contribution,
                                      RPow(RAdd(One, cola), t - 1))

\* C15 as stated: in Amount mode the contribution added in the t-th active
\* period is starting_contribution * (1 + cola)^(t-1), and for balance 30000,
\* contribution 5000, COLA 3%, pre-return 7%, post-return 5%, two active
\* periods and one runoff period, the unrounded balances are 37450, 45631.50
\* and 47913.075.
C15_AmountScenarioAsStated ==
    /\ AmountContributionByPeriod
    /\ (Simulated(1, 3) /\ buckets = Coerced(AmountScenarioTable)) =>
        /\ steps[1].after = Num(37450)
        /\ steps[2].after = <<91263, 2>>
        /\ steps[3].after = <<1916523, 40>>

\* C15, amended: the contribution rule as stated; the unrounded balances of
\* the scenario are 37450, 45582 and 47861.10.
C15_AmountContributionGrowsAfterUse ==
    /\ AmountContributionByPeriod
    /\ (Simulated(1, 3) /\ buckets = Coerced(AmountScenarioTable)) =>
        /\ steps[1].active /\ steps[2].active /\ ~steps[3].active
        /\ steps[1].added = Num(5000)
        /\ steps[2].added = Num(5150)
        /\ steps[1].after = Num(37450)
        /\ steps[2].after = Num(45582)
        /\ steps[3].after = <<478611, 10>>

\* C15 witness: the three periods of the scenario have been simulated for
\* the payout, the second contribution having grown by the COLA.
C15_Witness ==
    /\ pc = "payout_while"
    /\ Simulated(1, 3)
    /\ buckets = Coerced(AmountScenarioTable)
    /\ contrib_type = "Amount"
    /\ steps[2].added # steps[1].added
    /\ balance = <<478611, 10>>

\* in Percent mode the contribution of the t-th active period is the
\* starting salary after t - 1 COLA steps times the bucket's fraction
PercentContributionByPeriod ==
    (pc \in {"while", "payout_while"} /\ contrib_type = "Percent") =>
        \A t \in DOMAIN steps :
            steps[t].active =>
                steps[t].added
                    = RMul(RMul(current_salary, RPow(RAdd(One, cola), t - 1)),
                           buckets[bidx].starting_contribution)

\* C16 as stated: in Percent mode the contribution added in the t-th active
\* period is current_salary * (1 + cola)^(t-1) * starting_contribution,
\* whatever the balance and the return rate, and for salary 100000, rate 5%,
\* COLA 3%, return 7% and starting balance 0 the balances after periods 1
\* and 2 are 5350.00 and 11234.50.
C16_PercentScenarioAsStated ==
    /\ PercentContributionByPeriod
    /\ (Simulated(1, 2) /\ buckets = Coerced(PercentScenarioTable)) =>
        /\ steps[1].after = Num(5350)
        /\ steps[2].after = <<22469, 2>>

\* C16, amended: the contribution rule as stated; the balances of the
\* scenario after periods 1 and 2 are 5350.00 and 11235.00.
C16_PercentContributionOfSalary ==
    /\ PercentContributionByPeriod
    /\ (pc \in {"while", "payout_while"} /\ contrib_type = "Percent") =>
        local_salary = RMul(current_salary,
                            RPow(RAdd(One, cola),
                                 Cardinality({t \in DOMAIN steps : steps[t].active})))
    /\ (Simulated(1, 2) /\ buckets = Coerced(PercentScenarioTable)) =>
        /\ steps[1].active /\ steps[2].active
        /\ steps[1].added = Num(5000)
        /\ steps[2].added = Num(5150)
        /\ steps[1].after = Num(5350)
        /\ steps[2].after = Num(11235)
        /\ local_salary = Num(106090)

\* C16 witness: the two periods of the scenario have been simulated for the
\* payout, with a balance that a contribution taken from it would change.
C16_Witness ==
    /\ pc = "payout_while"
    /\ Simulated(1, 2)
    /\ buckets = Coerced(PercentScenarioTable)
    /\ contrib_type = "Percent"
    /\ steps[2].before # Zero
    /\ steps[2].added # RMul(steps[2].before, buckets[1].starting_contribution)
    /\ balance = Num(11235)

(***************************************************************************)
(* lumpsum_vs_payments_and_invest.py                                       *)
(***************************************************************************)
\* the number of years drawn is 1 .. MaxLumpYears
MaxLumpYears == 3

RSub(x, y) == RAdd(x, RNeg(y))

\* x / y for y # 0
RDiv(x, y) ==
    IF y[1] < 0 THEN Norm(-(x[1] * y[2]), -(x[2] * y[1]))
    ELSE Norm(x[1] * y[2], x[2] * y[1])

LumpSumAmounts == {Zero, Num(5), Num(100)}
LumpStartingBalances == {Zero, Num(10)}
AnnualPayments == {Zero, Num(8)}
ReturnRates == {Zero, <<1, 2>>}
GainTaxRates == {Zero, <<1, 2>>}
DiscountRates == {Zero, <<1, 2>>}

InitLumpSum ==
    /\ pc = "lump_sum"
    /\ st_error = ""
    /\ lump_sum_amount \in LumpSumAmounts
    /\ ls_starting_balance \in LumpStartingBalances
    /\ annual_payment \in AnnualPayments
    /\ return_rate \in ReturnRates
    /\ ls_tax_rate \in GainTaxRates
    /\ discount_rate \in DiscountRates
    /\ ls_years \in 1 .. MaxLumpYears
    /\ ls_balance = Zero
    /\ ls_year = 0
    /\ ls_results = <<>>
    /\ final_balance = Zero
    /\ present_value = Zero
    /\ conclusion = ""
    /\ EsspNotRunning
    /\ ForecastNotRunning
    /\ BreakevenNotRunning
    /\ SharePlanNotRunning

lsInputs == <<lump_sum_amount, ls_starting_balance, annual_payment, return_rate,
              ls_tax_rate, discount_rate, ls_years>>

\* balance = starting_balance; results = []
LumpSumBegin ==
    /\ pc = "lump_sum"
    /\ ls_balance' = ls_starting_balance
    /\ ls_results' = <<>>
    /\ ls_year' = 1
    /\ pc' = "lump_for_year"
    /\ UNCHANGED <<st_error, lsInputs, final_balance, present_value, conclusion>>
    /\ UNCHANGED <<esspVars, fcVars, ssVars, spVars>>

\* one iteration of for year in range(1, int(years) + 1)
LumpSumYear ==
    /\ pc = "lump_for_year"
    /\ ls_year <= ls_years
    /\ LET paid == IF ls_year > 1 THEN RSub(ls_balance, annual_payment)
                   ELSE ls_balance
           gross_gain == RMul(paid, return_rate)
           tax == RMul(gross_gain, ls_tax_rate)
           net_gain == RSub(gross_gain, tax)
           grown == RAdd(paid, net_gain)
           pv_balance == RDiv(grown, RPow(RAdd(One, discount_rate), ls_year))
       IN /\ ls_balance' = grown
          /\ ls_results' = Append(ls_results,
                 [Year |-> ls_year,
                  StartBalance |-> Round2(RSub(grown, net_gain)),
                  GrossGain |-> Round2(gross_gain),
                  Tax |-> Round2(tax),
                  NetGain |-> Round2(net_gain),
                  EndBalance |-> Round2(grown),
                  PresentValue |-> Round2(pv_balance)])
    /\ ls_year' = ls_year + 1
    /\ UNCHANGED <<pc, st_error, lsInputs, final_balance, present_value, conclusion>>
    /\ UNCHANGED <<esspVars, fcVars, ssVars, spVars>>

\* final_balance = balance; present_value = final_balance / (1 + discount_rate) ** years
LumpSumFinal ==
    /\ pc = "lump_for_year"
    /\ ls_year > ls_years
    /\ final_balance' = ls_balance
    /\ present_value' = RDiv(ls_balance, RPow(RAdd(One, discount_rate), ls_years))
    /\ pc' = "lump_conclusion"
    /\ UNCHANGED <<st_error, lsInputs, ls_balance, ls_year, ls_results, conclusion>>
    /\ UNCHANGED <<esspVars, fcVars, ssVars, spVars>>

\* mutant of SurplusShown: the present value is compared with the lump sum
SurplusShown_overlump == RLt(lump_sum_amount, present_value)

\* if present_value > 0
SurplusShown == RLt(Zero, present_value)

\* st.success(...) or st.warning(...)
LumpSumConclusion ==
    /\ pc = "lump_conclusion"
    /\ conclusion' = IF SurplusShown THEN "success" ELSE "warning"
    /\ pc' = "lump_sum_done"
    /\ UNCHANGED <<st_error, lsInputs, ls_balance, ls_year, ls_results,
                   final_balance, present_value>>
    /\ UNCHANGED <<esspVars, fcVars, ssVars, spVars>>

NextLumpSum ==
    \/ LumpSumBegin
    \/ LumpSumYear
    \/ LumpSumFinal
    \/ LumpSumConclusion

SpecLumpSum == InitLumpSum /\ [][NextLumpSum]_vars

(***************************************************************************)
(* Claims about the lump-sum comparison                                    *)
(***************************************************************************)
\* the balance after n years as the inputs other than the lump sum give it:
\* the payment is taken from the second year on, the gain after tax is added
RECURSIVE BalanceAfter(_)
BalanceAfter(n) ==
    IF n = 0 THEN ls_starting_balance
    ELSE LET base == IF n > 1 THEN RSub(BalanceAfter(n - 1), annual_payment)
                     ELSE BalanceAfter(n - 1)
         IN RMul(base, RAdd(One, RMul(return_rate, RSub(One, ls_tax_rate))))

\* the conclusion as the inputs other than the lump sum give it
ConclusionWithoutLumpSum ==
    IF RLt(Zero, RDiv(BalanceAfter(ls_years), RPow(RAdd(One, discount_rate), ls_years)))
    THEN "success" ELSE "warning"

\* C18: the conclusion shown is decided only by whether the present value
\* of the final balance is > 0: it is a function of the inputs other than
\* lump_sum_amount, so two runs that differ only in lump_sum_amount show the
\* same conclusion, and the lump sum is never compared with the present
\* value.
C18_ConclusionIgnoresLumpSum ==
    /\ conclusion \in {"", "success", "warning"}
    /\ pc = "lump_sum_done" =>
        /\ conclusion = "success" <=> RLt(Zero, present_value)
        /\ conclusion = "warning" <=> RLe(present_value, Zero)
        /\ conclusion = ConclusionWithoutLumpSum
    /\ pc \in {"lump_sum", "lump_for_year", "lump_conclusion"} => conclusion = ""

\* C18 witness: the surplus conclusion is shown for a present value that is
\* below the lump sum.
C18_Witness ==
    /\ pc = "lump_sum_done"
    /\ conclusion = "success"
    /\ RLt(present_value, lump_sum_amount)
    /\ ls_years > 1
    /\ annual_payment # Zero

(***************************************************************************)
(* The two calculators that validate a form before simulating              *)
(***************************************************************************)
InitValidation == InitEssp \/ InitForecast

NextValidation == NextEssp \/ NextForecast

SpecValidation == InitValidation /\ [][NextValidation]_vars

\* a coerced row of the bucket table that must be rejected
RejectedRow(r) ==
    \/ r.starting_balance[2] = 0 \/ r.starting_contribution[2] = 0
    \/ r.payout_year[2] = 0
    \/ r.starting_balance[1] < 0
    \/ r.starting_contribution[1] < 0
    \/ r.payout_year[1] <= 0

\* the forecast form must be rejected
RejectedForecast ==
    \/ hire_date_input # <<>> /\ years_of_service_input # <<>>
    \/ hire_date_input # <<>> /\ RelativeYears(hire_date_input[1], dob) < 16
    \/ target_age <= RelativeYears(Date(now.y, 1, 1), dob)

\* C7: when validation fails no simulation step runs and no trace or payout
\* is produced, and an error message is reported: in the retirement forecast
\* for an age at hire < 16, a target age <= the age at the start of the current
\* year, or both a hire date and years of service; in the bucket calculator
\* for a non-numeric field, a negative balance or contribution, or a payout
\* year <= 0.
C7_NoSimulationOnInvalidInput ==
    /\ (pc \in {"stopped", "run_calculation", "for_yr", "for_b", "while", "raised",
                "create_payout_df", "payout_while", "done"}
          /\ \E i \in DOMAIN bucket_df : RejectedRow(bucket_df[i]))
        => /\ pc = "stopped"
           /\ st_error # ""
           /\ buckets = <<>> /\ results = <<>> /\ payouts = <<>> /\ steps = <<>>
    /\ (pc \in {"forecast_form", "forecast_contributions", "forecast_stopped",
                "forecast_returned", "forecast_for_year", "forecast_done"}
          /\ RejectedForecast)
        => /\ pc \in {"forecast_form", "forecast_contributions", "forecast_stopped",
                      "forecast_returned"}
           /\ pc \in {"forecast_stopped", "forecast_returned"} => st_error # ""
           /\ data = <<>>
           /\ salary = Zero /\ total_contributions = Zero /\ year = 0

\* C7 witness: a forecast with years of service alone, returned with an
\* error for a target age not above the age at the start of the year.
C7_Witness ==
    /\ pc = "forecast_returned"
    /\ st_error # ""
    /\ hire_date_input = <<>>
    /\ years_of_service_input # <<>>
    /\ target_age <= RelativeYears(Date(now.y, 1, 1), dob)
    /\ data = <<>>

====
